---- MODULE Spec2Model ----
(***************************************************************************)
(* The three SSE clients of mcpFirebird:                                   *)
(*   "mcp"  : class MCPClient               (src/test-mcp-client.py)       *)
(*   "sse"  : class McpFirebirdSseClient    (src/examples/legacy/          *)
(*                                            sse_client.py)               *)
(*   "test" : the script test-sse.py        (src/test-sse.py)              *)
(* Each behaviour runs one of them (variable variant): one foreground      *)
(* caller and one background reader thread, interleaved statement by       *)
(* statement where the two touch shared fields.                            *)
(*                                                                         *)
(* Strings are sequences of one-character strings, so that slicing,        *)
(* strip, split and concatenation are computed as Python computes them.    *)
(* An optional value (None or a string) is a sequence of length 0 or 1.    *)
(***************************************************************************)
EXTENDS Integers, Sequences, FiniteSets, TLC

\* ------------------------------------------------------------------ bounds

\* Lines the server sends on the event stream before it ends.
MaxLines == 4

\* Calls of send_request / execute_method in a behaviour.
MaxCalls == 2

\* Frames the sseclient library hands to McpFirebirdSseClient before the
\* stream ends.
MaxEvents == 2

\* Callbacks registered with McpFirebirdSseClient.on.
MaxHandlers == 2

\* ---------------------------------------------------------- string library

None == <<>>

Some(s) == <<s>>

\* Python truthiness of an optional string: None and "" are falsy.
Truthy(o) == o # None /\ o[1] # <<>>

\* s[n:]
Drop(s, n) == SubSeq(s, n + 1, Len(s))

\* s.startswith(p)
StartsWith(s, p) == Len(s) >= Len(p) /\ SubSeq(s, 1, Len(p)) = p

WHITESPACE == {" ", "\t"}

RECURSIVE LStrip(_)
LStrip(s) ==
    IF s # <<>> /\ s[1] \in WHITESPACE THEN LStrip(Drop(s, 1)) ELSE s

RECURSIVE RStrip(_)
RStrip(s) ==
    IF s # <<>> /\ s[Len(s)] \in WHITESPACE
    THEN RStrip(SubSeq(s, 1, Len(s) - 1))
    ELSE s

\* s.strip()
Strip(s) == RStrip(LStrip(s))

\* s.find(sep, from) with 1-based positions; 0 when sep does not occur.
RECURSIVE Find(_, _, _)
Find(s, sep, from) ==
    IF from + Len(sep) - 1 > Len(s) THEN 0
    ELSE IF SubSeq(s, from, from + Len(sep) - 1) = sep THEN from
    ELSE Find(s, sep, from + 1)

\* sep in s
Contains(s, sep) == Find(s, sep, 1) # 0

\* s.split(sep): the pieces between the non-overlapping occurrences of sep,
\* scanned left to right.
RECURSIVE Split(_, _)
Split(s, sep) ==
    LET i == Find(s, sep, 1)
    IN  IF i = 0 THEN <<s>>
        ELSE <<SubSeq(s, 1, i - 1)>> \o Split(Drop(s, i + Len(sep) - 1), sep)

DIGITS == <<"0", "1", "2", "3", "4", "5", "6", "7", "8", "9">>

\* str(n) for an int n >= 0
RECURSIVE Str(_)
Str(n) ==
    IF n < 10 THEN <<DIGITS[n + 1]>>
    ELSE Str(n \div 10) \o <<DIGITS[(n % 10) + 1]>>

\* ------------------------------------------------------------ wire strings

EVENT_PREFIX == <<"e", "v", "e", "n", "t", ":">>

DATA_PREFIX == <<"d", "a", "t", "a", ":">>

ENDPOINT == <<"e", "n", "d", "p", "o", "i", "n", "t">>

MESSAGE == <<"m", "e", "s", "s", "a", "g", "e">>

SID_SEP == <<"?", "s", "e", "s", "s", "i", "o", "n", "I", "d", "=">>

\* "/message?sessionId=" as test-sse.py and sse_client.py spell it out
MESSAGE_PATH == <<"/">> \o MESSAGE \o SID_SEP

\* The data strings a server may put in a frame.
DATA_A == <<"/">> \o MESSAGE \o SID_SEP \o <<"a">>

DATA_B == <<"/", "m", "s", "g">> \o SID_SEP \o <<"b", "&", "x", "=", "1">>

DATA_NOSID == <<"/", "m", "s", "g">>

DATA_EMPTYSID == <<"/", "m", "s", "g">> \o SID_SEP

\* The lines of the event stream, by name, and the text of each.
Lines == {"ev_endpoint", "ev_message", "data_a", "data_b", "data_nosid",
          "data_emptysid", "blank"}

LineText(l) ==
    CASE l = "ev_endpoint"   -> EVENT_PREFIX \o <<" ">> \o ENDPOINT
      [] l = "ev_message"    -> EVENT_PREFIX \o <<" ">> \o MESSAGE
      [] l = "data_a"        -> DATA_PREFIX \o <<" ">> \o DATA_A
      [] l = "data_b"        -> DATA_PREFIX \o <<" ">> \o DATA_B
      [] l = "data_nosid"    -> DATA_PREFIX \o <<" ">> \o DATA_NOSID
      [] l = "data_emptysid" -> DATA_PREFIX \o <<" ">> \o DATA_EMPTYSID
      [] l = "blank"         -> <<>>

\* The frames sseclient's events() yields, by name, and the .data of each.
SseEvents == {"sse_endpoint", "sse_json", "sse_text"}

\* --------------------------------------------------------------- JSON, HTTP

BODY_JSON == <<"{", "}">>

BODY_TEXT == <<"o", "o", "p", "s">>

\* json.loads / response.json() on the bodies above: None when the text is
\* not JSON (the call raises JSONDecodeError), else the decoded value, held
\* by its canonical text.
JsonLoads(text) ==
    IF text = <<"{", "}">> THEN Some(text)
    ELSE IF text # <<>> /\ \A i \in 1..Len(text) : text[i] \in {DIGITS[k] : k \in 1..10}
    THEN Some(text)
    ELSE None

STATUS_OK == 200

Statuses == {200, 500}

\* What requests.post can do: raise, or return a response.
Responses ==
    {[exc |-> TRUE, status_code |-> 0, text |-> <<>>]}
    \cup {[exc |-> FALSE, status_code |-> 500, text |-> BODY_TEXT]}
    \cup [exc : {FALSE}, status_code : {STATUS_OK}, text : {BODY_JSON, BODY_TEXT}]

EventData(e) ==
    CASE e = "sse_endpoint" -> DATA_A
      [] e = "sse_json"     -> BODY_JSON
      [] e = "sse_text"     -> BODY_TEXT

\* "python-client-" and the random suffix of McpFirebirdSseClient.session_id
\* (ten characters in the code, one here).
PYTHON_CLIENT == <<"p", "y", "t", "h", "o", "n", "-", "c", "l", "i", "e", "n",
                   "t", "-">>

RandomSuffixes == {<<"k">>, <<"7">>}

\* The callbacks a caller registers: one returns, one raises.
Callbacks == {"cb_ok", "cb_raise"}

\* Which failure a response (or a raise) of requests.post is.
ResponseKind(r) ==
    IF r.exc THEN "transport"
    ELSE IF r.status_code # STATUS_OK THEN "status"
    ELSE IF JsonLoads(r.text) = None THEN "protocol"
    ELSE "ok"

\* requests.Response.__bool__ is Response.ok: the status is below 400.
ResponseTruthy(r) == r # None /\ r[1].status_code < 400

\* int(time.time()) read when the previous read gave t: the same second, or
\* a later one.
ClockRead(t) == {t, t + 1}

\* What a call hands back to its caller.
RetNone == [tag |-> "None", exc |-> "", val |-> <<>>]

RetValue(v) == [tag |-> "value", exc |-> "", val |-> v]

RetRaise(e, text) == [tag |-> "raise", exc |-> e, val |-> text]

\* ------------------------------------------------------------------- state

VARIABLES
    variant,            \* which client this behaviour runs
    wire,               \* the lines (frames, for "sse") the reader has taken
    rpc,                \* the reader thread's position
    current_event,      \* reader local
    event_data,         \* reader local
    server_url,
    session_id,         \* self.session_id
    message_endpoint,   \* self.message_endpoint
    connected,          \* self.connected
    sse_response,       \* self.sse_response / sse_response: None or a response
    endpoint_received,  \* the threading.Event's flag
    SESSION_ID,         \* the global of test-sse.py
    request_id,         \* self.request_id
    sse_client,         \* self.sse_client: "None" or "SSEClient"
    event_handlers,     \* self.event_handlers
    log,                \* the callbacks invoked, in order, with their argument
    fpc,                \* the main flow: "ready", "wait" (in Event.wait), "exit"
    connect_ret,        \* what connect() returned: "none" until it has
    now,                \* int(time.time()), seconds since the behaviour began
    epc,                \* each calling thread's position in its call
    ereq,               \* each calling thread's request in the making
    posts,              \* the requests.post calls made, in order, each
                        \* with the thread and the moment of its call
    results,            \* what each call returned, in order
    closed              \* close() / disconnect() has returned

vars == <<variant, wire, rpc, current_event, event_data, server_url,
          session_id, message_endpoint, connected, sse_response,
          endpoint_received, SESSION_ID, request_id, sse_client,
          event_handlers, log, fpc, connect_ret, now, epc, ereq, posts,
          results, closed>>

readerLocals == <<current_event, event_data>>

session == <<session_id, message_endpoint, connected, SESSION_ID>>

sseFields == <<request_id, sse_client, event_handlers, log>>

calls == <<now, epc, ereq, posts, results>>

Variants == {"mcp", "test", "sse"}

\* The threads that make calls: the main flow, and a second caller.
Threads == {"main", "t2"}

\* SERVER_URL of each script, the default server_url of the class.
SERVER_URL(v) ==
    LET host == <<"h", "t", "t", "p", ":", "/", "/", "l", "o", "c", "a", "l",
                  "h", "o", "s", "t", ":", "3", "0", "0">>
    IN  IF v = "mcp" THEN host \o <<"5">> ELSE host \o <<"3">>

\* A request in the making: its id, the value read for "request_id += 1",
\* and when it was issued: after close() returned? after the reader took an
\* endpoint frame?
NoRequest == [id |-> <<>>, tmp |-> 0, after_close |-> FALSE,
              after_endpoint |-> FALSE]

Init ==
    /\ variant \in Variants
    /\ wire = <<>>
    /\ rpc = "off"
    /\ current_event = None
    /\ event_data = <<>>
    /\ server_url = SERVER_URL(variant)
    /\ session_id \in IF variant = "sse"
                      THEN {Some(PYTHON_CLIENT \o x) : x \in RandomSuffixes}
                      ELSE {None}
    /\ message_endpoint = None
    /\ connected = FALSE
    /\ sse_response = None
    /\ endpoint_received = FALSE
    /\ SESSION_ID = None
    /\ request_id = 1
    /\ sse_client = "None"
    /\ event_handlers = [e \in {"message", "error", "open"} |-> <<>>]
    /\ log = <<>>
    /\ fpc = "ready"
    /\ connect_ret = "none"
    /\ now = 0
    /\ epc = [t \in Threads |-> "idle"]
    /\ ereq = [t \in Threads |-> NoRequest]
    /\ posts = <<>>
    /\ results = <<>>
    /\ closed = FALSE

EventLines == {"ev_endpoint", "ev_message"}

DataLines == {"data_a", "data_b", "data_nosid", "data_emptysid"}

\* The reader has taken an endpoint frame off the stream: an "event: endpoint"
\* line and a data: line after it (a frame of event type endpoint, for the
\* sseclient library).
EndpointFrameTaken ==
    IF variant = "sse"
    THEN \E i \in 1..Len(wire) : wire[i] = "sse_endpoint"
    ELSE \E i, j \in 1..Len(wire) :
           i < j /\ wire[i] = "ev_endpoint" /\ wire[j] \in DataLines

\* The calls begun so far: returned, or in the making.
CallsBegun == Len(results) + Cardinality({t \in Threads : epc[t] # "idle"})

\* What the try block that MCPClient.send_request and the send_request of
\* test-sse.py share returns, for a response (or a raise) of requests.post.
send_request_outcome(r) ==
    IF r.exc THEN RetNone
    ELSE IF r.status_code # STATUS_OK THEN RetNone
    ELSE IF JsonLoads(r.text) = None THEN RetNone
    ELSE RetValue(JsonLoads(r.text)[1])

\* --------------------------------------------- MCPClient (test-mcp-client.py)

\* connect(), lines 28-88: the GET, and on status 200 the reader thread's
\* start. The caller then blocks in endpoint_received.wait.
connect ==
    /\ variant = "mcp"
    /\ fpc = "ready"
    /\ epc["main"] = "idle"
    /\ connect_ret = "none"
    /\ ~closed
    /\ \/ \* requests.get raises: except, return False
          /\ connect_ret' = "False"
          /\ UNCHANGED <<sse_response, rpc, fpc, endpoint_received>>
       \/ \E status \in Statuses :
            /\ sse_response' = Some([status_code |-> status, closed |-> FALSE])
            /\ IF status # STATUS_OK
               THEN /\ connect_ret' = "False"
                    /\ UNCHANGED <<rpc, fpc, endpoint_received>>
               ELSE /\ endpoint_received' = FALSE
                    /\ rpc' = "iter"
                    /\ fpc' = "wait"
                    /\ UNCHANGED connect_ret
    /\ UNCHANGED <<variant, sseFields, wire, readerLocals, server_url, session, calls, closed>>

\* endpoint_received.wait(timeout=5) returns True: connect returns True.
connect_wait_set ==
    /\ variant = "mcp"
    /\ fpc = "wait"
    /\ endpoint_received
    /\ connect_ret' = "True"
    /\ fpc' = "ready"
    /\ UNCHANGED <<variant, sseFields, wire, rpc, readerLocals, server_url, session,
                   sse_response, endpoint_received, calls, closed>>

\* connect_wait_timeout written as "while not endpoint_received.wait(5): pass":
\* a wait that times out is begun again, and connect does not return.
connect_wait_timeout_retries ==
    /\ variant = "mcp"
    /\ fpc = "wait"
    /\ ~endpoint_received
    /\ fpc' = "wait"
    /\ UNCHANGED <<variant, sseFields, wire, rpc, readerLocals, server_url, session,
                   sse_response, endpoint_received, connect_ret, calls, closed>>

\* The wait times out with the event not set: connect returns False.
connect_wait_timeout ==
    /\ variant = "mcp"
    /\ fpc = "wait"
    /\ ~endpoint_received
    /\ connect_ret' = "False"
    /\ fpc' = "ready"
    /\ UNCHANGED <<variant, sseFields, wire, rpc, readerLocals, server_url, session,
                   sse_response, endpoint_received, calls, closed>>

\* One turn of "for line in self.sse_response.iter_lines()": lines 46-57 and
\* the branches of the data: line that touch only the thread's locals
\* (lines 69-83).
process_sse_line ==
    /\ variant = "mcp"
    /\ rpc = "iter"
    /\ Len(wire) < MaxLines
    /\ ~sse_response[1].closed
    /\ \E l \in Lines :
         LET line == LineText(l)
         IN  /\ wire' = Append(wire, l)
             /\ IF line = <<>>
                THEN UNCHANGED <<rpc, readerLocals>>
                ELSE IF StartsWith(line, EVENT_PREFIX)
                THEN /\ current_event' = Some(Strip(Drop(line, 6)))
                     /\ UNCHANGED <<rpc, event_data>>
                ELSE IF StartsWith(line, DATA_PREFIX)
                THEN /\ event_data' = Strip(Drop(line, 5))
                     /\ IF current_event = Some(ENDPOINT)
                        THEN rpc' = "set_endpoint" /\ UNCHANGED current_event
                        ELSE /\ current_event' =
                                  IF Truthy(current_event) THEN None
                                  ELSE current_event
                             /\ UNCHANGED rpc
                ELSE UNCHANGED <<rpc, readerLocals>>
    /\ UNCHANGED <<variant, sseFields, server_url, session, sse_response,
                   endpoint_received, fpc, connect_ret, calls, closed>>

\* The stream ends: the for loop is left and process_sse returns.
process_sse_end ==
    /\ variant = "mcp"
    /\ rpc = "iter"
    /\ rpc' = "done"
    /\ UNCHANGED <<variant, sseFields, wire, readerLocals, server_url, session,
                   sse_response, endpoint_received, fpc, connect_ret, calls,
                   closed>>

\* iter_lines raises (a transport error, the response closed under it):
\* nothing in process_sse catches it and the thread dies.
process_sse_error ==
    /\ variant = "mcp"
    /\ rpc = "iter"
    /\ rpc' = "dead"
    /\ UNCHANGED <<variant, sseFields, wire, readerLocals, server_url, session,
                   sse_response, endpoint_received, fpc, connect_ret, calls,
                   closed>>

\* process_sse_set_endpoint with endpoint_received.set() moved out of the
\* "if '?sessionId=' in event_data" block: the event is set for every endpoint
\* frame.
process_sse_set_endpoint_signals_always ==
    /\ variant = "mcp"
    /\ rpc = "set_endpoint"
    /\ message_endpoint' = Some(event_data)
    /\ IF Contains(event_data, SID_SEP)
       THEN rpc' = "set_session" /\ UNCHANGED <<current_event, endpoint_received>>
       ELSE rpc' = "iter" /\ current_event' = None /\ endpoint_received' = TRUE
    /\ UNCHANGED <<variant, sseFields, wire, event_data, server_url, session_id,
                   connected, SESSION_ID, sse_response, fpc, connect_ret,
                   calls, closed>>

\* Lines 59-62 (and line 68 when the data holds no "?sessionId=").
process_sse_set_endpoint ==
    /\ variant = "mcp"
    /\ rpc = "set_endpoint"
    /\ message_endpoint' = Some(event_data)
    /\ IF Contains(event_data, SID_SEP)
       THEN rpc' = "set_session" /\ UNCHANGED current_event
       ELSE rpc' = "iter" /\ current_event' = None
    /\ UNCHANGED <<variant, sseFields, wire, event_data, server_url, session_id,
                   connected, SESSION_ID, sse_response, endpoint_received,
                   fpc, connect_ret, calls, closed>>

\* Line 63.
process_sse_set_session ==
    /\ variant = "mcp"
    /\ rpc = "set_session"
    /\ session_id' = Some(Split(event_data, SID_SEP)[2])
    /\ rpc' = "set_connected"
    /\ UNCHANGED <<variant, sseFields, wire, readerLocals, server_url, message_endpoint,
                   connected, SESSION_ID, sse_response, endpoint_received,
                   fpc, connect_ret, calls, closed>>

\* Line 65.
process_sse_set_connected ==
    /\ variant = "mcp"
    /\ rpc = "set_connected"
    /\ connected' = TRUE
    /\ rpc' = "set_event"
    /\ UNCHANGED <<variant, sseFields, wire, readerLocals, server_url, session_id,
                   message_endpoint, SESSION_ID, sse_response,
                   endpoint_received, fpc, connect_ret, calls, closed>>

\* process_sse_set_event without line 68: the event type is kept for the
\* lines that follow.
process_sse_set_event_keeps_type ==
    /\ variant = "mcp"
    /\ rpc = "set_event"
    /\ endpoint_received' = TRUE
    /\ rpc' = "iter"
    /\ UNCHANGED <<variant, sseFields, wire, readerLocals, server_url, session,
                   sse_response, fpc, connect_ret, calls, closed>>

\* Lines 66 and 68.
process_sse_set_event ==
    /\ variant = "mcp"
    /\ rpc = "set_event"
    /\ endpoint_received' = TRUE
    /\ current_event' = None
    /\ rpc' = "iter"
    /\ UNCHANGED <<variant, sseFields, wire, event_data, server_url, session,
                   sse_response, fpc, connect_ret, calls, closed>>

\* send_request, lines 104-116: the guard, and the request with its id.
send_request_check ==
    /\ variant = "mcp"
    /\ fpc = "ready"
    /\ epc["main"] = "idle"
    /\ CallsBegun < MaxCalls
    /\ IF ~connected \/ ~Truthy(message_endpoint) \/ ~Truthy(session_id)
       THEN /\ results' = Append(results, [kind |-> "not_connected", ret |-> RetNone])
            /\ UNCHANGED <<now, epc, ereq, posts>>
       ELSE \E t \in ClockRead(now) :
              /\ now' = t
              /\ ereq' = [ereq EXCEPT !["main"] =
                            [id |-> Str(t), tmp |-> 0,
                             after_close |-> closed, after_endpoint |-> EndpointFrameTaken]]
              /\ epc' = [epc EXCEPT !["main"] = "post"]
              /\ UNCHANGED <<posts, results>>
    /\ UNCHANGED <<variant, sseFields, wire, rpc, readerLocals, server_url, session,
                   sse_response, endpoint_received, fpc, connect_ret, closed>>

\* send_request, lines 120-148: the URL, the POST and what is returned.
send_request_post ==
    /\ variant = "mcp"
    /\ epc["main"] = "post"
    /\ \E r \in Responses :
         /\ posts' = Append(posts, [url |-> server_url \o message_endpoint[1],
                                    id |-> ereq["main"].id,
                                    by |-> "main",
                                    after_close |-> ereq["main"].after_close,
                                    after_endpoint |-> ereq["main"].after_endpoint])
         /\ results' = Append(results, [kind |-> ResponseKind(r),
                                         ret |-> send_request_outcome(r)])
    /\ ereq' = [ereq EXCEPT !["main"] = NoRequest]
    /\ epc' = [epc EXCEPT !["main"] = "idle"]
    /\ UNCHANGED <<variant, sseFields, wire, rpc, readerLocals, server_url, session,
                   sse_response, endpoint_received, fpc, connect_ret, now,
                   closed>>

\* close(), lines 152-156.
close ==
    /\ variant = "mcp"
    /\ fpc = "ready"
    /\ epc["main"] = "idle"
    /\ sse_response' =
         IF ResponseTruthy(sse_response)
         THEN Some([sse_response[1] EXCEPT !.closed = TRUE])
         ELSE sse_response
    /\ connected' = FALSE
    /\ closed' = TRUE
    /\ UNCHANGED <<variant, sseFields, wire, rpc, readerLocals, server_url, session_id,
                   message_endpoint, SESSION_ID, endpoint_received, fpc,
                   connect_ret, calls>>

NextMCP ==
    \/ connect
    \/ connect_wait_set
    \/ connect_wait_timeout
    \/ process_sse_line
    \/ process_sse_end
    \/ process_sse_error
    \/ process_sse_set_endpoint
    \/ process_sse_set_session
    \/ process_sse_set_connected
    \/ process_sse_set_event
    \/ send_request_check
    \/ send_request_post
    \/ close

\* ------------------------------------------------------- script test-sse.py

\* main(), lines 59-98: the GET (its status is printed, not checked) and
\* the reader thread's start; a raise of requests.get ends the script.
main_get ==
    /\ variant = "test"
    /\ fpc = "ready"
    /\ epc["main"] = "idle"
    /\ connect_ret = "none"
    /\ \/ /\ fpc' = "exit"
          /\ connect_ret' = "raise"
          /\ UNCHANGED <<sse_response, rpc, endpoint_received>>
       \/ \E status \in Statuses :
            /\ sse_response' = Some([status_code |-> status, closed |-> FALSE])
            /\ endpoint_received' = FALSE
            /\ rpc' = "iter"
            /\ fpc' = "wait"
            /\ UNCHANGED connect_ret
    /\ UNCHANGED <<variant, sseFields, wire, readerLocals, server_url, session, calls, closed>>

\* endpoint_event_received.wait(timeout=10) returns True, line 102.
main_wait_set ==
    /\ variant = "test"
    /\ fpc = "wait"
    /\ endpoint_received
    /\ connect_ret' = "True"
    /\ fpc' = "ready"
    /\ UNCHANGED <<variant, sseFields, wire, rpc, readerLocals, server_url, session,
                   sse_response, endpoint_received, calls, closed>>

\* The wait times out, lines 102-104: main returns and the script ends, and
\* its daemon thread with it.
main_wait_timeout ==
    /\ variant = "test"
    /\ fpc = "wait"
    /\ ~endpoint_received
    /\ connect_ret' = "False"
    /\ fpc' = "exit"
    /\ UNCHANGED <<variant, sseFields, wire, rpc, readerLocals, server_url, session,
                   sse_response, endpoint_received, calls, closed>>

\* One turn of "for line in sse_response.iter_lines()", lines 72-94 but for
\* the writes of SESSION_ID and of the event.
read_sse_line ==
    /\ variant = "test"
    /\ fpc # "exit"
    /\ rpc = "iter"
    /\ Len(wire) < MaxLines
    /\ \E l \in Lines :
         LET decoded_line == LineText(l)
         IN  /\ wire' = Append(wire, l)
             /\ IF decoded_line = <<>>
                THEN UNCHANGED <<rpc, readerLocals>>
                ELSE IF StartsWith(decoded_line, EVENT_PREFIX)
                THEN /\ current_event' = Some(Strip(Drop(decoded_line, 6)))
                     /\ UNCHANGED <<rpc, event_data>>
                ELSE IF StartsWith(decoded_line, DATA_PREFIX)
                THEN /\ event_data' = Strip(Drop(decoded_line, 5))
                     /\ IF current_event = Some(ENDPOINT)
                        THEN IF Contains(Strip(Drop(decoded_line, 5)), SID_SEP)
                             THEN rpc' = "set_session" /\ UNCHANGED current_event
                             ELSE current_event' = None /\ UNCHANGED rpc
                        ELSE UNCHANGED <<rpc, current_event>>
                ELSE UNCHANGED <<rpc, readerLocals>>
    /\ UNCHANGED <<variant, sseFields, server_url, session, sse_response,
                   endpoint_received, fpc, connect_ret, calls, closed>>

\* The stream ends and read_sse returns.
read_sse_end ==
    /\ variant = "test"
    /\ fpc # "exit"
    /\ rpc = "iter"
    /\ rpc' = "done"
    /\ UNCHANGED <<variant, sseFields, wire, readerLocals, server_url, session,
                   sse_response, endpoint_received, fpc, connect_ret, calls,
                   closed>>

\* iter_lines raises: the thread dies.
read_sse_error ==
    /\ variant = "test"
    /\ fpc # "exit"
    /\ rpc = "iter"
    /\ rpc' = "dead"
    /\ UNCHANGED <<variant, sseFields, wire, readerLocals, server_url, session,
                   sse_response, endpoint_received, fpc, connect_ret, calls,
                   closed>>

\* Line 91.
read_sse_set_session ==
    /\ variant = "test"
    /\ fpc # "exit"
    /\ rpc = "set_session"
    /\ SESSION_ID' = Some(Split(event_data, SID_SEP)[2])
    /\ rpc' = "set_event"
    /\ UNCHANGED <<variant, sseFields, wire, readerLocals, server_url, session_id,
                   message_endpoint, connected, sse_response,
                   endpoint_received, fpc, connect_ret, calls, closed>>

\* Lines 93-94.
read_sse_set_event ==
    /\ variant = "test"
    /\ fpc # "exit"
    /\ rpc = "set_event"
    /\ endpoint_received' = TRUE
    /\ current_event' = None
    /\ rpc' = "iter"
    /\ UNCHANGED <<variant, sseFields, wire, event_data, server_url, session,
                   sse_response, fpc, connect_ret, calls, closed>>

\* send_request(method, session_id=SESSION_ID), lines 15-52: the argument is
\* the global's value when the call is made.
test_send_request ==
    /\ variant = "test"
    /\ fpc = "ready"
    /\ CallsBegun < MaxCalls
    /\ IF SESSION_ID = None
       THEN /\ results' = Append(results, [kind |-> "not_connected", ret |-> RetNone])
            /\ UNCHANGED <<now, posts>>
       ELSE \E t \in ClockRead(now), r \in Responses :
              /\ now' = t
              /\ posts' = Append(posts,
                                 [url |-> server_url \o MESSAGE_PATH \o SESSION_ID[1],
                                  id |-> Str(t),
                                  by |-> "main",
                                  after_close |-> closed,
                                  after_endpoint |-> EndpointFrameTaken])
              /\ results' = Append(results, [kind |-> ResponseKind(r),
                                              ret |-> send_request_outcome(r)])
    /\ UNCHANGED <<variant, sseFields, wire, rpc, readerLocals, server_url, session,
                   sse_response, endpoint_received, fpc, connect_ret, epc,
                   ereq, closed>>

NextTest ==
    \/ main_get
    \/ main_wait_set
    \/ main_wait_timeout
    \/ read_sse_line
    \/ read_sse_end
    \/ read_sse_error
    \/ read_sse_set_session
    \/ read_sse_set_event
    \/ test_send_request

\* ------------------------- McpFirebirdSseClient (examples/legacy/sse_client.py)

\* What McpFirebirdSseClient never touches.
notSse == <<variant, server_url, current_event, event_data, message_endpoint,
            sse_response, endpoint_received, SESSION_ID, fpc>>

\* _trigger_event over the callbacks hs, the i-th registered first: each is
\* called with data until one raises, which ends the loop and propagates.
RECURSIVE TriggerFrom(_, _, _, _)
TriggerFrom(hs, i, event, data) ==
    IF i > Len(hs) THEN [entries |-> <<>>, raised |-> FALSE]
    ELSE LET entry == [event |-> event, idx |-> i, cb |-> hs[i], data |-> data]
         IN  IF hs[i] = "cb_raise"
             THEN [entries |-> <<entry>>, raised |-> TRUE]
             ELSE LET rest == TriggerFrom(hs, i + 1, event, data)
                  IN  [entries |-> <<entry>> \o rest.entries,
                       raised |-> rest.raised]

\* _trigger_event(event, data), lines 108-111.
Trigger(handlers, event, data) == TriggerFrom(handlers[event], 1, event, data)

NoData == [kind |-> "None", val |-> <<>>]

ErrorData == [kind |-> "exception", val |-> <<>>]

\* on(event, callback), lines 103-106, called before connect as main() does.
on ==
    /\ variant = "sse"
    /\ connect_ret = "none"
    /\ ~closed
    /\ Len(event_handlers["message"]) + Len(event_handlers["error"])
         + Len(event_handlers["open"]) < MaxHandlers
    /\ \E e \in {"message", "error", "open"}, cb \in Callbacks :
         event_handlers' = [event_handlers EXCEPT ![e] = Append(@, cb)]
    /\ UNCHANGED <<notSse, wire, rpc, session_id, connected, request_id,
                   sse_client, log, connect_ret, calls, closed>>

\* connect(), lines 28-51.
sse_connect ==
    /\ variant = "sse"
    /\ connect_ret = "none"
    /\ ~closed
    /\ LET err == Trigger(event_handlers, "error", ErrorData)
           open == Trigger(event_handlers, "open", NoData)
       IN  \/ \* requests.get or SSEClient raises
              /\ log' = log \o err.entries
              /\ connect_ret' = IF err.raised THEN "raise" ELSE "False"
              /\ UNCHANGED <<sse_client, connected, rpc>>
           \/ /\ sse_client' = "SSEClient"
              /\ connected' = TRUE
              /\ IF open.raised
                 THEN /\ log' = log \o open.entries \o err.entries
                      /\ connect_ret' = IF err.raised THEN "raise" ELSE "False"
                      /\ UNCHANGED rpc
                 ELSE /\ log' = log \o open.entries
                      /\ rpc' = "iter"
                      /\ connect_ret' = "True"
    /\ UNCHANGED <<notSse, wire, session_id, request_id, event_handlers,
                   calls, closed>>

\* One turn of "for event in self.sse_client.events()", lines 55-62, and the
\* outer except of lines 63-66 when the second _trigger_event raises too.
process_events_event ==
    /\ variant = "sse"
    /\ rpc = "iter"
    /\ sse_client = "SSEClient"
    /\ Len(wire) < MaxEvents
    /\ \E ev \in SseEvents :
         LET data == EventData(ev)
             json == JsonLoads(data)
             first == IF json = None
                      THEN [entries |-> <<>>, raised |-> TRUE]
                      ELSE Trigger(event_handlers, "message",
                                   [kind |-> "json", val |-> json[1]])
             second == Trigger(event_handlers, "message",
                               [kind |-> "str", val |-> data])
             err == Trigger(event_handlers, "error", ErrorData)
         IN  /\ wire' = Append(wire, ev)
             /\ IF ~first.raised
                THEN /\ log' = log \o first.entries
                     /\ UNCHANGED <<rpc, connected>>
                ELSE IF ~second.raised
                THEN /\ log' = log \o first.entries \o second.entries
                     /\ UNCHANGED <<rpc, connected>>
                ELSE /\ log' = log \o first.entries \o second.entries
                                   \o err.entries
                     /\ connected' = FALSE
                     /\ rpc' = IF err.raised THEN "dead" ELSE "done"
    /\ UNCHANGED <<notSse, session_id, request_id, sse_client, event_handlers,
                   connect_ret, calls, closed>>

\* events() is exhausted: the for loop is left and _process_events returns.
process_events_end ==
    /\ variant = "sse"
    /\ rpc = "iter"
    /\ rpc' = "done"
    /\ UNCHANGED <<notSse, wire, session_id, connected, sseFields,
                   connect_ret, calls, closed>>

\* events() raises: the except of lines 63-66.
process_events_error ==
    /\ variant = "sse"
    /\ rpc = "iter"
    /\ LET err == Trigger(event_handlers, "error", ErrorData)
       IN  /\ connected' = FALSE
           /\ log' = log \o err.entries
           /\ rpc' = IF err.raised THEN "dead" ELSE "done"
    /\ UNCHANGED <<notSse, wire, session_id, request_id, sse_client,
                   event_handlers, connect_ret, calls, closed>>

\* disconnect(), lines 68-73.
disconnect ==
    /\ variant = "sse"
    /\ IF sse_client # "None"
       THEN sse_client' = "None" /\ connected' = FALSE
       ELSE UNCHANGED <<sse_client, connected>>
    /\ closed' = TRUE
    /\ UNCHANGED <<notSse, wire, rpc, session_id, request_id, event_handlers,
                   log, connect_ret, calls>>

\* execute_method, lines 76-87: the guard, and the request with its id.
execute_method_begin(t) ==
    /\ variant = "sse"
    /\ epc[t] = "idle"
    /\ CallsBegun < MaxCalls
    /\ IF ~connected
       THEN /\ results' = Append(results,
                                 [kind |-> "not_connected",
                                  ret |-> RetRaise("Exception", <<>>)])
            /\ UNCHANGED <<epc, ereq>>
       ELSE /\ ereq' = [ereq EXCEPT ![t] = [id |-> Str(request_id),
                                            tmp |-> 0,
                                            after_close |-> closed,
                                            after_endpoint |-> EndpointFrameTaken]]
            /\ epc' = [epc EXCEPT ![t] = "load"]
            /\ UNCHANGED results
    /\ UNCHANGED <<notSse, wire, rpc, session_id, connected, sseFields,
                   connect_ret, now, posts, closed>>

\* Line 88, the read of self.request_id.
execute_method_load(t) ==
    /\ variant = "sse"
    /\ epc[t] = "load"
    /\ ereq' = [ereq EXCEPT ![t].tmp = request_id]
    /\ epc' = [epc EXCEPT ![t] = "store"]
    /\ UNCHANGED <<notSse, wire, rpc, session_id, connected, sseFields,
                   connect_ret, now, posts, results, closed>>

\* Line 88, the write of self.request_id.
execute_method_store(t) ==
    /\ variant = "sse"
    /\ epc[t] = "store"
    /\ request_id' = ereq[t].tmp + 1
    /\ epc' = [epc EXCEPT ![t] = "post"]
    /\ UNCHANGED <<notSse, wire, rpc, session_id, connected, sse_client,
                   event_handlers, log, connect_ret, now, ereq, posts,
                   results, closed>>

\* What lines 92-101 hand back for a response (or a raise) of requests.post:
\* the status is not looked at, and response.json() raises on a body that
\* is not JSON.
execute_method_outcome(r) ==
    IF r.exc THEN RetRaise("ConnectionError", <<>>)
    ELSE IF JsonLoads(r.text) = None THEN RetRaise("JSONDecodeError", r.text)
    ELSE RetValue(JsonLoads(r.text)[1])

\* execute_method, lines 92-101.
execute_method_post(t) ==
    /\ variant = "sse"
    /\ epc[t] = "post"
    /\ \E r \in Responses :
         /\ posts' = Append(posts,
                            [url |-> server_url \o MESSAGE_PATH \o session_id[1],
                             id |-> ereq[t].id,
                             by |-> t,
                             after_close |-> ereq[t].after_close,
                             after_endpoint |-> ereq[t].after_endpoint])
         /\ results' = Append(results, [kind |-> ResponseKind(r),
                                         ret |-> execute_method_outcome(r)])
    /\ ereq' = [ereq EXCEPT ![t] = NoRequest]
    /\ epc' = [epc EXCEPT ![t] = "idle"]
    /\ UNCHANGED <<notSse, wire, rpc, session_id, connected, sseFields,
                   connect_ret, now, closed>>

NextSse ==
    \/ on
    \/ sse_connect
    \/ process_events_event
    \/ process_events_end
    \/ process_events_error
    \/ disconnect
    \/ \E t \in Threads : execute_method_begin(t)
    \/ \E t \in Threads : execute_method_load(t)
    \/ \E t \in Threads : execute_method_store(t)
    \/ \E t \in Threads : execute_method_post(t)

Next == NextMCP \/ NextTest \/ NextSse

Spec == Init /\ [][Next]_vars

\* MCPClient and test-sse.py without their calls: connect (main), the reader
\* thread and close.
NextConnect ==
    \/ connect
    \/ connect_wait_set
    \/ connect_wait_timeout
    \/ process_sse_line
    \/ process_sse_end
    \/ process_sse_error
    \/ process_sse_set_endpoint
    \/ process_sse_set_session
    \/ process_sse_set_connected
    \/ process_sse_set_event
    \/ close
    \/ main_get
    \/ main_wait_set
    \/ main_wait_timeout
    \/ read_sse_line
    \/ read_sse_end
    \/ read_sse_error
    \/ read_sse_set_session
    \/ read_sse_set_event

InitConnect == Init /\ variant \in {"mcp", "test"}

SpecConnect == InitConnect /\ [][NextConnect]_vars

\* Event.wait(timeout=...) comes back: with True once the flag is set, with
\* False once the timeout has elapsed. Nothing is assumed of the reader
\* thread or of the server.
WaitReturns ==
    connect_wait_set \/ connect_wait_timeout \/ main_wait_set \/ main_wait_timeout

FairConnect == WF_vars(WaitReturns)

SpecConnectFair == SpecConnect /\ FairConnect

\* ------------------------------------------------------------------ claims

\* The payload of each data: line, and of it what follows "?sessionId=".
DataOf(l) ==
    CASE l = "data_a"        -> DATA_A
      [] l = "data_b"        -> DATA_B
      [] l = "data_nosid"    -> DATA_NOSID
      [] l = "data_emptysid" -> DATA_EMPTYSID

AfterSessionId(l) ==
    CASE l = "data_a"        -> <<"a">>
      [] l = "data_b"        -> <<"b", "&", "x", "=", "1">>
      [] l = "data_emptysid" -> <<>>

\* The value of the query parameter sessionId in each data: line that has one.
SessionIdParam(l) ==
    CASE l = "data_a"        -> <<"a">>
      [] l = "data_b"        -> <<"b">>
      [] l = "data_emptysid" -> <<>>

SidLines == {"data_a", "data_b", "data_emptysid"}

\* The data: lines taken so far.
DataTaken == {wire[i] : i \in {j \in 1..Len(wire) : wire[j] \in DataLines}}

\* C1: in every client, a call issued before the reader has taken an endpoint
\* frame fails (None or a raise) and makes no POST.
C1_NoPostBeforeEndpoint ==
    /\ \A i \in 1..Len(posts) : posts[i].after_endpoint
    /\ ~EndpointFrameTaken =>
          \A i \in 1..Len(results) : results[i].ret.tag # "value"

\* C2: when the endpoint frames taken all carry the data string d, every
\* call issued after them POSTs to the server URL followed by exactly d, in
\* all three clients.
C2_PostToEndpointPath ==
    \A d \in {DATA_A, DATA_B, DATA_EMPTYSID, DATA_NOSID} :
      (IF variant = "sse"
       THEN d = DATA_A
       ELSE \A l \in DataTaken : DataOf(l) = d)
      => \A i \in 1..Len(posts) :
           posts[i].after_endpoint => posts[i].url = server_url \o d

\* C3: once the event is set (the first endpoint frame has been processed),
\* no step changes session_id, message_endpoint or SESSION_ID.
C3_SessionFixedOnceReady ==
    [][endpoint_received =>
         /\ session_id' = session_id
         /\ message_endpoint' = message_endpoint
         /\ SESSION_ID' = SESSION_ID]_vars

\* C4: a call issued after close() / disconnect() has returned makes no POST
\* and fails.
C4_NoPostAfterClose ==
    \A i \in 1..Len(posts) : ~posts[i].after_close

\* C5: two calls made one after the other (by the same thread) carry
\* different request ids.
C5_DistinctIds ==
    \A i, j \in 1..Len(posts) :
      i < j /\ posts[i].by = posts[j].by => posts[i].id # posts[j].id

\* C6: MCPClient.connect returns True only with the session ready: connected
\* is True (until close() clears it) and session_id and message_endpoint hold
\* what an endpoint frame taken off the stream gave them. It returns False
\* when the GET's status is not 200 (no reader is started) and when it comes
\* back from the wait with the event not set.
C6_ConnectTrueOnlyReady ==
    variant = "mcp" =>
      /\ connect_ret = "True" =>
            /\ connected \/ closed
            /\ endpoint_received
            /\ EndpointFrameTaken
            /\ \E l \in DataTaken : message_endpoint = Some(DataOf(l))
            /\ \E l \in DataTaken \cap SidLines :
                 session_id = Some(AfterSessionId(l))
      /\ sse_response # None /\ sse_response[1].status_code # 200 =>
            connect_ret = "False" /\ rpc = "off"
      /\ rpc # "off" /\ fpc = "ready" /\ ~endpoint_received =>
            connect_ret = "False"

\* C6 witness: connect has returned True on a frame "/message?sessionId=a".
C6_Witness ==
    /\ variant = "mcp"
    /\ connect_ret = "True"
    /\ connected
    /\ session_id = Some(<<"a">>)
    /\ message_endpoint = Some(DATA_A)


\* The last line taken off the stream, and the one before it.
LastLine == wire[Len(wire)]

LastButOne == wire[Len(wire) - 1]

\* C7: for an endpoint frame whose data is <path>?sessionId=<id>, with or
\* without further query parameters, the reader stores the value of the
\* sessionId parameter as session_id (SESSION_ID) and the whole data string as
\* the submit path, and the event is set once the frame is processed.
C7_SessionIdIsTheParameter ==
    /\ variant = "mcp" /\ rpc \in {"set_connected", "set_event"} =>
         /\ session_id = Some(SessionIdParam(LastLine))
         /\ message_endpoint = Some(DataOf(LastLine))
    /\ variant = "test" /\ rpc = "set_event" =>
         SESSION_ID = Some(SessionIdParam(LastLine))
    /\ /\ variant \in {"mcp", "test"}
       /\ rpc = "iter"
       /\ Len(wire) >= 2
       /\ LastButOne = "ev_endpoint"
       /\ LastLine \in SidLines
       => endpoint_received

FailureKinds == {"not_connected", "status", "transport", "protocol"}

\* C8: every failed call hands its caller an outcome that tells the kind of
\* failure: no failure comes back as a value, two failures of different kinds
\* come back different, and a body that is not JSON comes back with the raw
\* text.
C8_FailuresAreTyped ==
    /\ \A i \in 1..Len(results) :
         results[i].kind \in FailureKinds => results[i].ret.tag # "value"
    /\ \A i \in 1..Len(results) :
         results[i].kind = "protocol" => results[i].ret.val = BODY_TEXT
    /\ \A i, j \in 1..Len(results) :
         /\ results[i].kind \in FailureKinds
         /\ results[j].kind \in FailureKinds
         /\ results[i].kind # results[j].kind
         => results[i].ret # results[j].ret

\* C9: when the stream ends after an event:/data: pair with no blank line
\* behind it, the pair has had no effect on the session of MCPClient or of
\* test-sse.py.
C9_PartialFrameDropped ==
    /\ variant \in {"mcp", "test"}
    /\ rpc = "done"
    /\ Len(wire) = 2
    /\ wire[1] \in EventLines
    /\ wire[2] \in DataLines
    => /\ session_id = None
       /\ message_endpoint = None
       /\ SESSION_ID = None
       /\ ~connected
       /\ ~endpoint_received

\* How many times the i-th registered error handler has been called.
ErrorCalls(i) ==
    Cardinality({k \in 1..Len(log) : log[k].event = "error" /\ log[k].idx = i})

\* C10: once the reader's loop has stopped (the stream ended, or reading
\* raised), connected is False and every registered error handler has been
\* notified exactly once.
C10_ReaderStopClearsConnected ==
    variant \in {"mcp", "sse"} /\ rpc \in {"done", "dead"} =>
      /\ ~connected
      /\ \A i \in 1..Len(event_handlers["error"]) : ErrorCalls(i) = 1

\* What _process_events hands a message handler for a frame's data: the
\* decoded value when the data is JSON, else the string.
Decoded(data) ==
    IF JsonLoads(data) = None
    THEN [kind |-> "str", val |-> data]
    ELSE [kind |-> "json", val |-> JsonLoads(data)[1]]

\* One call of each message handler hs[i..], in registration order, for the
\* frame ev.
RECURSIVE OncePerHandler(_, _, _)
OncePerHandler(hs, i, ev) ==
    IF i > Len(hs) THEN <<>>
    ELSE <<[event |-> "message", idx |-> i, cb |-> hs[i],
            data |-> Decoded(EventData(ev))]>>
         \o OncePerHandler(hs, i + 1, ev)

\* That, for each frame of w in wire order.
RECURSIVE OncePerFrame(_, _)
OncePerFrame(hs, w) ==
    IF w = <<>> THEN <<>>
    ELSE OncePerHandler(hs, 1, Head(w)) \o OncePerFrame(hs, Tail(w))

IsMessageCall(entry) == entry.event = "message"

\* C11: the calls McpFirebirdSseClient has made to its message handlers are,
\* for each frame read in wire order, one call of each registered handler in
\* registration order, with the decoded value when the frame's data is JSON
\* and with the string when it is not, also when a handler raises.
C11_MessageHandlersOncePerFrame ==
    variant = "sse" =>
      SelectSeq(log, IsMessageCall) = OncePerFrame(event_handlers["message"], wire)

\* C12: when the stream holds "event: endpoint", two data: lines and a blank
\* line, the session of MCPClient and of test-sse.py is the one of the second
\* data: line.
C12_LastDataLineWins ==
    /\ variant \in {"mcp", "test"}
    /\ rpc = "iter"
    /\ Len(wire) = 4
    /\ wire[1] = "ev_endpoint"
    /\ wire[2] \in DataLines
    /\ wire[3] \in DataLines
    /\ wire[4] = "blank"
    => /\ variant = "mcp" => message_endpoint = Some(DataOf(wire[3]))
       /\ variant = "mcp" /\ wire[3] \in SidLines =>
            session_id = Some(AfterSessionId(wire[3]))
       /\ variant = "test" /\ wire[3] \in SidLines =>
            SESSION_ID = Some(AfterSessionId(wire[3]))

\* C13: once the reader has processed a first endpoint frame, with or without
\* "?sessionId=" in its data, the event is set (the waiter is released), and
\* in MCPClient the submit path is stored and connected is True; the submit
\* path is never stored with the session not ready.
C13_AnyEndpointFrameMakesReady ==
    /\ /\ variant \in {"mcp", "test"}
       /\ rpc = "iter"
       /\ Len(wire) = 2
       /\ wire[1] = "ev_endpoint"
       /\ wire[2] \in DataLines
       => /\ endpoint_received
          /\ variant = "mcp" => connected /\ message_endpoint = Some(DataOf(wire[2]))
    /\ variant = "mcp" /\ message_endpoint # None /\ ~closed => connected

\* C14: two requests of McpFirebirdSseClient.execute_method made by different
\* threads carry different ids, and once all calls have returned request_id
\* is its first value plus the number of requests made.
C14_ConcurrentCallsDistinctIds ==
    variant = "sse" =>
      /\ \A i, j \in 1..Len(posts) :
           posts[i].by # posts[j].by => posts[i].id # posts[j].id
      /\ (\A t \in Threads : epc[t] = "idle") => request_id = 1 + Len(posts)

\* C15: MCPClient.connect hands back True or False and nothing else, and once
\* it is in endpoint_received.wait (the GET has returned with status 200) it
\* eventually has returned: True only with the event set, whatever the reader
\* has taken off the stream. The wait of test-sse.py's main ends likewise.
C15_ConnectTerminates ==
    /\ [](variant = "mcp" => connect_ret \in {"none", "True", "False"})
    /\ [](variant = "mcp" /\ connect_ret = "True" => endpoint_received)
    /\ (fpc = "wait") ~> (fpc # "wait" /\ connect_ret \in {"True", "False"})

\* C15 witness: connect has come back False from a wait that timed out, the
\* stream having ended with no endpoint frame on it.
C15_Witness ==
    /\ variant = "mcp"
    /\ connect_ret = "False"
    /\ sse_response # None
    /\ sse_response[1].status_code = STATUS_OK
    /\ rpc = "done"
    /\ ~endpoint_received
    /\ fpc = "ready"

\* The line before position i that is not blank, 0 when there is none.
RECURSIVE PrevNonBlank(_)
PrevNonBlank(i) ==
    IF i <= 1 THEN 0
    ELSE IF wire[i - 1] # "blank" THEN i - 1
    ELSE PrevNonBlank(i - 1)

\* The last line taken is a data: line and the line before it (blank lines
\* apart) is "event: endpoint".
EndpointDataJustTaken ==
    /\ Len(wire) >= 2
    /\ wire[Len(wire)] \in DataLines
    /\ PrevNonBlank(Len(wire)) # 0
    /\ wire[PrevNonBlank(Len(wire))] = "ev_endpoint"

\* C16: the readers of MCPClient and test-sse.py treat a data: line as
\* endpoint data only when the line before it (blank lines apart) is
\* "event: endpoint", and once they have processed such a data: line their
\* current event type is None.
C16_EventTypeAppliesToOneFrame ==
    variant \in {"mcp", "test"} =>
      /\ rpc \in {"set_endpoint", "set_session", "set_connected", "set_event"}
           => EndpointDataJustTaken
      /\ rpc \in {"iter", "done", "dead"} /\ EndpointDataJustTaken
           => current_event = None

\* C16 witness: MCPClient's reader has taken "event: endpoint", "data: /msg"
\* and then "data: /message?sessionId=a", and the last line has set nothing.
C16_Witness ==
    /\ variant = "mcp"
    /\ wire = <<"ev_endpoint", "data_nosid", "data_a">>
    /\ rpc = "iter"
    /\ message_endpoint = Some(DATA_NOSID)
    /\ session_id = None
    /\ current_event = None

\* C17: in MCPClient, whenever connected is True, message_endpoint holds
\* "?sessionId=" and session_id is the text after it.
C17_ConnectedPairConsistent ==
    variant = "mcp" /\ connected =>
      /\ message_endpoint # None
      /\ session_id # None
      /\ Contains(message_endpoint[1], SID_SEP)
      /\ session_id[1] = Split(message_endpoint[1], SID_SEP)[2]

\* C18: once MCPClient.connect has returned False from a wait that timed out
\* (the GET had returned status 200), connected is False and no POST has been
\* made.
C18_StaysNotConnectedAfterTimeout ==
    /\ variant = "mcp"
    /\ connect_ret = "False"
    /\ sse_response # None
    /\ sse_response[1].status_code = STATUS_OK
    => /\ ~connected
       /\ posts = <<>>

====
